---------------------------- MODULE Spec2Model ----------------------------
(***************************************************************************)
(* A model of flask_mailgun.py: the Mailgun extension object (init_app,    *)
(* send), the LoggingHandler that mails ERROR records, and APIError.       *)
(*                                                                         *)
(* Encoding of Python values:                                              *)
(*   - a str is a sequence of string pieces, to be read concatenated;      *)
(*   - None (where a str may be None) is the value None below;             *)
(*   - a dict is a function whose DOMAIN is the set of keys present;       *)
(*   - an attribute of the Mailgun object that is None is a key absent     *)
(*     from the function mg;                                               *)
(*   - a template is a sequence of tokens, a literal piece or a            *)
(*     placeholder; rendering substitutes the placeholders.                *)
(***************************************************************************)
EXTENDS Integers, Sequences, FiniteSets, TLC

VARIABLES
    pc,       \* "new", "failed" (init_app raised), "Idle", "Rendering", "Dispatching"
    app,      \* the Flask application: debug, config, extensions, logger handlers
    mg,       \* the Mailgun object's attributes that are not None
    evt,      \* the log record (with its request context) being handled: 0 or 1 of them
    rendered, \* the subject and text emit has computed for it: 0 or 1 of them
    last      \* what the last completed call did (observation only)

vars == <<pc, app, mg, evt, rendered, last>>

-----------------------------------------------------------------------------
(* Bounds *)

\* How many of the seven template options one configuration overrides.
MaxOverrides == 1

\* How deep a send logged from inside emit may re-enter emit before the
\* model stops following it (Python would end in RecursionError).
MaxNest == 2

-----------------------------------------------------------------------------
(* Basic values *)

None == <<"<None>">>

Lit(s) == [k |-> "lit", v |-> s]
Ph(n) == [k |-> "ph", v |-> n]
Loop(n) == [k |-> "for", v |-> n]

\* logging's numeric levels, as used by the module
DEBUG == 10
INFO == 20
ERROR == 40
LogLevels == {10, 20, 30, 40, 50}

levelname(l) ==
    CASE l = 10 -> "DEBUG"
      [] l = 20 -> "INFO"
      [] l = 30 -> "WARNING"
      [] l = 40 -> "ERROR"
      [] l = 50 -> "CRITICAL"

\* str() of the integers the model formats
IntStr(n) ==
    CASE n = 7 -> "7"
      [] n = 42 -> "42"
      [] n = 190 -> "190"
      [] n = 199 -> "199"
      [] n = 200 -> "200"
      [] n = 201 -> "201"
      [] n = 401 -> "401"

HTTP_OK == 200

-----------------------------------------------------------------------------
(* Module-level names and default templates *)

ModuleGlobals ==
    { "logging", "requests", "current_app", "render_template_string",
      "html2text", "default_api_url_template", "default_debug_template",
      "default_logging_template",
      "default_error_subject_withexcinfo_template",
      "default_error_subject_withoutexcinfo_template",
      "default_error_template", "default_api_error_template",
      "Mailgun", "LoggingHandler", "APIError" }

default_api_url_template ==
    << Lit("https://api.mailgun.net/v3/"), Ph("domain"), Lit("/messages") >>

default_debug_template ==
    << Lit("Mailgun send\n\nFrom:       "), Ph("from"),
       Lit("\nTo:         "), Ph("to"),
       Lit("\nSubject:    "), Ph("subject"),
       Lit("\n\n"), Ph("text"),
       Lit("\n\n----------------------------------------\n\n"), Ph("html"),
       Lit("\n") >>

default_logging_template ==
    << Lit("Severity:   "), Ph("levelname"),
       Lit("\nLocation:   "), Ph("pathname"), Lit(":"), Ph("lineno"),
       Lit("\nModule:     "), Ph("module"),
       Lit("\nFunction:   "), Ph("funcName"),
       Lit("\nTime:       "), Ph("asctime"),
       Lit("\n\n"), Ph("message"), Lit("\n") >>

default_error_subject_withexcinfo_template ==
    << Lit("ERROR: "), Ph("exc_info") >>

default_error_subject_withoutexcinfo_template ==
    << Ph("levelname"), Lit(": "), Ph("pathname"), Lit(":"), Ph("lineno") >>

default_error_template ==
    << Ph("message"), Lit("\n\n"),
       Ph("request.method"), Lit(" "), Ph("request.url"), Lit("\n"),
       Loop("request.headers"), Loop("session"), Lit("\n"),
       Loop("request.form"), Lit("\n") >>

default_api_error_template ==
    << Lit("Mailgun API "), Ph("method"), Lit(" at "), Ph("url"),
       Lit(" failed with status code "), Ph("status_code"),
       Lit(":\n"), Ph("text") >>

-----------------------------------------------------------------------------
(* Rendering *)

RECURSIVE Concat(_)
Concat(ss) == IF ss = <<>> THEN <<>> ELSE Head(ss) \o Concat(Tail(ss))

\* str.format / the % operator with a mapping: each placeholder is replaced
\* by the value of its field, the literals are kept.
Format(tpl, ctx) ==
    Concat([i \in 1..Len(tpl) |->
              IF tpl[i].k = "ph" THEN ctx[tpl[i].v] ELSE <<tpl[i].v>>])


-----------------------------------------------------------------------------
(* The application's configuration *)

TemplateKeys ==
    { "MAILGUN_API_URL_TEMPLATE", "MAILGUN_DEBUG_TEMPLATE",
      "MAILGUN_LOGGING_TEMPLATE",
      "MAILGUN_ERROR_SUBJECT_WITHEXCINFO_TEMPLATE",
      "MAILGUN_ERROR_SUBJECT_WITHOUTEXCINFO_TEMPLATE",
      "MAILGUN_ERROR_TEMPLATE", "MAILGUN_API_ERROR_TEMPLATE" }

ConfigKeys ==
    TemplateKeys \cup
    { "MAILGUN_DOMAIN", "MAILGUN_KEY",
      "MAILGUN_LOGGING_RECIPIENT", "MAILGUN_LOGGING_SENDER" }

\* The value an application sets for an option it configures.  Every
\* override is a well-formed template: it names only fields its rendering
\* context has.
ConfigValue(k) ==
    CASE k = "MAILGUN_DOMAIN" -> <<"mg.example.org">>
      [] k = "MAILGUN_KEY" -> <<"key-1">>
      [] k = "MAILGUN_LOGGING_RECIPIENT" -> <<"ops@example.org">>
      [] k = "MAILGUN_LOGGING_SENDER" -> <<"app@example.org">>
      [] k = "MAILGUN_API_URL_TEMPLATE" ->
            << Lit("https://api.eu.mailgun.net/v3/"), Ph("domain"),
               Lit("/messages") >>
      [] k = "MAILGUN_DEBUG_TEMPLATE" ->
            << Ph("to"), Lit(" <- "), Ph("subject") >>
      [] k = "MAILGUN_LOGGING_TEMPLATE" ->
            << Ph("levelname"), Lit(" "), Ph("message") >>
      [] k = "MAILGUN_ERROR_SUBJECT_WITHEXCINFO_TEMPLATE" ->
            << Lit("Crash: "), Ph("exc_info"), Lit("!") >>
      [] k = "MAILGUN_ERROR_SUBJECT_WITHOUTEXCINFO_TEMPLATE" ->
            << Ph("lineno"), Lit("@"), Ph("pathname"), Lit(" "),
               Ph("levelname") >>
      [] k = "MAILGUN_ERROR_TEMPLATE" ->
            << Ph("request.url"), Lit("\n"), Ph("message") >>
      [] k = "MAILGUN_API_ERROR_TEMPLATE" ->
            << Ph("status_code"), Lit(" "), Ph("url") >>

Configs ==
    { K \in SUBSET ConfigKeys : Cardinality(K \cap TemplateKeys) <= MaxOverrides }

\* dict.get(k): the value, or None reported as "absent"
Has(d, k) == k \in DOMAIN d

\* d[k] = v on a dict (also: setting an attribute of the Mailgun object)
Put(d, k, v) == [x \in DOMAIN d \cup {k} |-> IF x = k THEN v ELSE d[x]]

\* dict.setdefault(k, v)
SetDefault(d, k, v) == IF Has(d, k) THEN d ELSE Put(d, k, v)

\* x = config.get(k); if x is None: x = default
GetOr(d, k, default) == IF Has(d, k) THEN d[k] ELSE default

EmptyDict == [x \in {} |-> <<>>]

-----------------------------------------------------------------------------
(* Mailgun.__init__ and Mailgun.init_app *)

\* Every attribute is None after __init__ (app=None).
MailgunNew == EmptyDict

\* Variants of LoggingHandler.__init__ with a lower level.
LoggingHandlerNew_warningLevel(mailgun, sender, recipient) ==
    [ level |-> 30,
      formatter |-> mailgun["logging_template"],
      sender |-> sender,
      recipient |-> recipient,
      messages |-> <<>> ]

LoggingHandlerNew_infoLevel(mailgun, sender, recipient) ==
    [ level |-> INFO,
      formatter |-> mailgun["logging_template"],
      sender |-> sender,
      recipient |-> recipient,
      messages |-> <<>> ]

\* LoggingHandler.__init__
LoggingHandlerNew(mailgun, sender, recipient) ==
    [ level |-> ERROR,
      formatter |-> mailgun["logging_template"],
      sender |-> sender,
      recipient |-> recipient,
      messages |-> <<>> ]

\* The templates init_app sets after the credentials, lines 118-156.
InitTemplates(a, m) ==
    LET m1 == Put(m, "api_url_template",
                  GetOr(a.config, "MAILGUN_API_URL_TEMPLATE",
                        default_api_url_template))
        cfg == IF m["debug"]
               THEN SetDefault(SetDefault(a.config, "MAILGUN_DOMAIN",
                                          <<"TESTING">>),
                               "MAILGUN_KEY", <<"">>)
               ELSE a.config
        m2 == IF m["debug"]
              THEN Put(m1, "debug_template",
                       GetOr(cfg, "MAILGUN_DEBUG_TEMPLATE",
                             default_debug_template))
              ELSE m1
        m3 == Put(m2, "logging_template",
                  GetOr(cfg, "MAILGUN_LOGGING_TEMPLATE",
                        default_logging_template))
        m4 == Put(m3, "error_subject_withexcinfo_template",
                  GetOr(cfg, "MAILGUN_ERROR_SUBJECT_WITHEXCINFO_TEMPLATE",
                        default_error_subject_withexcinfo_template))
        m5 == Put(m4, "error_subject_withoutexcinfo_template",
                  GetOr(cfg, "MAILGUN_ERROR_SUBJECT_WITHOUTEXCINFO_TEMPLATE",
                        default_error_subject_withoutexcinfo_template))
        m6 == Put(m5, "error_template",
                  GetOr(cfg, "MAILGUN_ERROR_TEMPLATE", default_error_template))
        m7 == Put(m6, "api_error_template",
                  GetOr(cfg, "MAILGUN_API_ERROR_TEMPLATE",
                        default_api_error_template))
    IN  [ config |-> cfg, mg |-> m7 ]

\* The handler registration that ends init_app, lines 158-166.
RegisterHandler(a, m) ==
    IF Has(a.config, "MAILGUN_LOGGING_RECIPIENT")
    THEN Append(a.handlers,
                LoggingHandlerNew(
                    m,
                    GetOr(a.config, "MAILGUN_LOGGING_SENDER", None),
                    a.config["MAILGUN_LOGGING_RECIPIENT"]))
    ELSE a.handlers

\* init_app as a whole: the application and the Mailgun object it leaves,
\* and the exception it raises ("none": returns).  app.config[k] raises
\* KeyError for a missing key, leaving what was assigned before it.
InitAppResult(a, m) ==
    LET a1 == [a EXCEPT !.extensions = @ \cup {"mailgun"}]
        m1 == Put(m, "debug", a.debug)
    IN  IF ~Has(a.config, "MAILGUN_DOMAIN")
        THEN [ app |-> a1, mg |-> m1, exc |-> "KeyError" ]
        ELSE
        LET m2 == Put(m1, "domain", a.config["MAILGUN_DOMAIN"])
        IN  IF ~Has(a.config, "MAILGUN_KEY")
            THEN [ app |-> a1, mg |-> m2, exc |-> "KeyError" ]
            ELSE
            LET m3 == Put(m2, "key", a.config["MAILGUN_KEY"])
                t == InitTemplates(a1, m3)
                a2 == [a1 EXCEPT !.config = t.config]
                a3 == [a2 EXCEPT !.handlers = RegisterHandler(a2, t.mg)]
            IN  [ app |-> a3, mg |-> t.mg, exc |-> "none" ]


-----------------------------------------------------------------------------
(* Collaborators: html2text, the logging Formatter, the Jinja renderer *)

\* html2text on the documents the model sends: emphasis tags become
\* Markdown markers, paragraph tags vanish, and the text ends in a blank line.
Html2TextPiece(p) ==
    CASE p = "<b>" -> "**"
      [] p = "</b>" -> "**"
      [] p = "<p>" -> ""
      [] p = "</p>" -> ""
      [] OTHER -> p

html2text(html) ==
    [i \in 1..Len(html) |-> Html2TextPiece(html[i])] \o <<"\n\n">>

\* Where a key sorts among the keys the model's dicts use.
KeyRank(key) ==
    CASE key = "Accept" -> 1
      [] key = "Host" -> 2
      [] key = "name" -> 3
      [] key = "user" -> 4

\* dict.items()|sort: the items in the order of their keys
RECURSIVE SortedItems(_)
SortedItems(d) ==
    IF DOMAIN d = {} THEN <<>>
    ELSE LET key == CHOOSE x \in DOMAIN d :
                        \A y \in DOMAIN d : KeyRank(x) <= KeyRank(y)
         IN  << <<key, d[key]>> >>
             \o SortedItems([x \in DOMAIN d \ {key} |-> d[x]])

\* One row of a {% for key, val in ... %} block of the error template.
LoopRow(name, item) ==
    IF name = "session"
    THEN <<"Session: ", item[1], "=">> \o item[2] \o <<"\n">>
    ELSE IF name = "request.headers"
    THEN <<item[1], ": ">> \o item[2] \o <<"\n">>
    ELSE <<item[1], "=">> \o item[2] \o <<"\n">>

LoopRows(name, d) ==
    LET items == SortedItems(d)
    IN  Concat([i \in 1..Len(items) |-> LoopRow(name, items[i])])

\* render_template_string(error_template, message=message) inside the
\* request context ctx, autoescaping off.
render_template_string(tpl, message, ctx) ==
    LET fields == [ n \in {"message", "request.method", "request.url"} |->
                      IF n = "message" THEN message
                      ELSE IF n = "request.method" THEN ctx.method
                      ELSE ctx.url ]
        dicts == [ n \in {"request.headers", "session", "request.form"} |->
                      IF n = "request.headers" THEN ctx.headers
                      ELSE IF n = "session" THEN ctx.session
                      ELSE ctx.form ]
    IN  Concat([i \in 1..Len(tpl) |->
                  IF tpl[i].k = "ph" THEN fields[tpl[i].v]
                  ELSE IF tpl[i].k = "for" THEN LoopRows(tpl[i].v, dicts[tpl[i].v])
                  ELSE <<tpl[i].v>>])

\* The fields of a log record a template may name.
RecordFields(record) ==
    [ n \in {"levelname", "pathname", "lineno", "module", "funcName",
             "asctime", "message"} |->
        CASE n = "levelname" -> <<levelname(record.levelno)>>
          [] n = "lineno" -> <<IntStr(record.lineno)>>
          [] n = "pathname" -> record.pathname
          [] n = "module" -> record.module
          [] n = "funcName" -> record.funcName
          [] n = "asctime" -> record.asctime
          [] n = "message" -> record.msg ]

\* logging.Formatter(fmt).format(record): the template filled from the
\* record, then the traceback when the record carries exception info.
FormatterFormat(fmt, record) ==
    Format(fmt, RecordFields(record))
    \o (IF record.exc_info = <<>> THEN <<>>
        ELSE <<"\nTraceback: ">> \o record.exc_info[1])


-----------------------------------------------------------------------------
(* APIError, Mailgun.send, LoggingHandler.emit *)

\* What a call leaves behind: the POSTs made, the records written to the
\* application logger, the exception raised ("none": it returned), the
\* APIError raised if any, the argument dicts of the send calls made, and
\* the number of emit calls made from inside it.
Quiet ==
    [ posts |-> <<>>, logged |-> <<>>, exc |-> "none", err |-> <<>>,
      sends |-> <<>>, emits |-> 0 ]

\* requests.post(url, auth=..., data=...): the response object, given what
\* the server answers.
requests_post(post, answer) ==
    [ request |-> [ method |-> post.method, url |-> post.url ],
      status_code |-> answer.status_code,
      text |-> answer.text ]

\* APIError(response, api_error_template) and its __str__
APIError(response, api_error_template) ==
    [ method |-> response.request.method,
      url |-> response.request.url,
      status_code |-> response.status_code,
      text |-> response.text,
      str |-> Format(api_error_template,
                     [ n \in {"method", "url", "status_code", "text"} |->
                         CASE n = "method" -> <<response.request.method>>
                           [] n = "url" -> response.request.url
                           [] n = "status_code" -> <<IntStr(response.status_code)>>
                           [] n = "text" -> response.text ]) ]

\* A variant of ResponseFailed that takes only the 4xx and 5xx statuses for
\* failures.
ResponseFailed_errorStatusesOnly(response) == response.status_code >= 400

\* if response.status_code != 200
ResponseFailed(response) == response.status_code # HTTP_OK

\* A variant of SenderOf without the fallback.
SenderOf_noFallback(from_, domain) == from_

\* from_ = data.pop('from_', None); if from_ is None: 'no-reply@{}'.format(domain)
SenderOf(from_, domain) ==
    IF from_ = None THEN <<"no-reply@">> \o domain ELSE from_

\* A variant of NeedsTextFallback that does not look at text.
NeedsTextFallback_ignoresText(data) == Has(data, "html")

\* if 'html' in data and 'text' not in data
NeedsTextFallback(data) == Has(data, "html") /\ ~Has(data, "text")

\* The record logger.info('Mailgun sent to ...') creates inside send.
SentRecord(data) ==
    [ levelno |-> INFO, pathname |-> <<"flask_mailgun.py">>, lineno |-> 199,
      module |-> <<"flask_mailgun">>, funcName |-> <<"send">>,
      asctime |-> <<"T1">>, msg |-> <<"Mailgun sent to ">> \o data["to"],
      exc_info |-> <<>> ]

\* The record logger.debug(template, data) creates inside send.
DebugRecord(template, data) ==
    [ levelno |-> DEBUG, pathname |-> <<"flask_mailgun.py">>, lineno |-> 190,
      module |-> <<"flask_mailgun">>, funcName |-> <<"send">>,
      asctime |-> <<"T1">>, msg |-> Format(template, data),
      exc_info |-> <<>> ]

\* The value of a module-level name that holds a template.
GlobalTemplate(name) ==
    CASE name = "default_debug_template" -> default_debug_template
      [] OTHER -> <<>>

\* logging.Handler: a handler takes the records at or above its level.
HandlerAccepts(h, record) == record.levelno >= h.level

\* A variant of EmitSubject that does not look at the exception info.
EmitSubject_ignoresExcInfo(m, record) ==
    Format(m["error_subject_withoutexcinfo_template"],
           [ n \in {"levelname", "pathname", "lineno"} |->
               CASE n = "levelname" -> <<levelname(record.levelno)>>
                 [] n = "pathname" -> record.pathname
                 [] n = "lineno" -> <<IntStr(record.lineno)>> ])

\* The subject emit computes, lines 215-228.
EmitSubject(m, record) ==
    IF record.exc_info # <<>>
    THEN Format(m["error_subject_withexcinfo_template"],
                [ n \in {"exc_info"} |-> record.exc_info[1] ])
    ELSE Format(m["error_subject_withoutexcinfo_template"],
                [ n \in {"levelname", "pathname", "lineno"} |->
                    CASE n = "levelname" -> <<levelname(record.levelno)>>
                      [] n = "pathname" -> record.pathname
                      [] n = "lineno" -> <<IntStr(record.lineno)>> ])

\* The text emit computes, lines 230-232.
EmitText(m, h, record, ctx) ==
    render_template_string(m["error_template"],
                           FormatterFormat(h.formatter, record), ctx)

\* The keyword arguments emit passes to send, lines 234-238.
EmitArgs(h, subject, text) ==
    [ n \in {"from_", "to", "subject", "text"} |->
        CASE n = "from_" -> h.sender
          [] n = "to" -> h.recipient
          [] n = "subject" -> subject
          [] n = "text" -> text ]

\* A variant of EmitOutcome that handles the error as logging handlers
\* conventionally do (Handler.handleError) instead of raising it.
EmitOutcome_swallows(r) == [ r EXCEPT !.exc = "none", !.err = <<>> ]

\* emit calls send outside any try block: it ends as send ends.
EmitOutcome(r) == r

RECURSIVE send(_, _, _, _, _, _)
RECURSIVE callHandlers(_, _, _, _, _, _, _)
RECURSIVE emit(_, _, _, _, _, _, _)

\* Mailgun.send(**args) on the Mailgun object m, the server answering
\* `answer` to a POST; hs are the application logger's handlers, ctx the
\* request context, depth the number of emit calls it is nested in.
send(m, hs, ctx, args, answer, depth) ==
    LET from_ == GetOr(args, "from_", None)
        data0 == [x \in DOMAIN args \ {"from_"} |-> args[x]]
        data1 == Put(data0, "from", SenderOf(from_, m["domain"]))
        data2 == IF NeedsTextFallback(data1)
                 THEN Put(data1, "text", html2text(data1["html"]))
                 ELSE data1
    IN  IF m["debug"]
        THEN
          LET data3 == SetDefault(data2, "html", <<"(no HTML)">>)
          IN  IF "debug_template" \notin ModuleGlobals
              THEN [ Quiet EXCEPT !.exc = "NameError", !.sends = <<args>> ]
                   @@ [ built |-> data3 ]
              ELSE
                LET rec == DebugRecord(GlobalTemplate("debug_template"), data3)
                    lg == callHandlers(m, hs, hs, ctx, rec, answer, depth)
                IN  [ built |-> data3,
                      posts |-> lg.posts,
                      logged |-> <<rec>> \o lg.logged,
                      exc |-> lg.exc, err |-> lg.err,
                      sends |-> <<args>> \o lg.sends,
                      emits |-> lg.emits ]
        ELSE
          LET url == Format(m["api_url_template"],
                            [ n \in {"domain"} |-> m["domain"] ])
              post == [ method |-> "POST", url |-> url,
                        auth |-> [ user |-> "api", password |-> m["key"] ],
                        data |-> data2 ]
              response == requests_post(post, answer)
          IN  IF ResponseFailed(response)
              THEN [ built |-> data2, posts |-> <<post>>, logged |-> <<>>,
                     exc |-> "APIError",
                     err |-> <<APIError(response, m["api_error_template"])>>,
                     sends |-> <<args>>, emits |-> 0 ]
              ELSE
                LET rec == SentRecord(data2)
                    lg == callHandlers(m, hs, hs, ctx, rec, answer, depth)
                IN  [ built |-> data2,
                      posts |-> <<post>> \o lg.posts,
                      logged |-> <<rec>> \o lg.logged,
                      exc |-> lg.exc, err |-> lg.err,
                      sends |-> <<args>> \o lg.sends,
                      emits |-> lg.emits ]

\* Logger.callHandlers: the handlers `rest` (of all the handlers hs) see
\* the record in turn; what one raises ends the call.
callHandlers(m, hs, rest, ctx, record, answer, depth) ==
    IF rest = <<>> THEN Quiet
    ELSE
      LET r1 == IF HandlerAccepts(Head(rest), record)
                THEN emit(m, hs, Head(rest), ctx, record, answer, depth)
                ELSE Quiet
      IN  IF r1.exc # "none" THEN r1
          ELSE
            LET r2 == callHandlers(m, hs, Tail(rest), ctx, record, answer, depth)
            IN  [ posts |-> r1.posts \o r2.posts,
                  logged |-> r1.logged \o r2.logged,
                  exc |-> r2.exc, err |-> r2.err,
                  sends |-> r1.sends \o r2.sends,
                  emits |-> r1.emits + r2.emits ]

\* LoggingHandler.emit(record) as one call, for the records send itself logs.
emit(m, hs, h, ctx, record, answer, depth) ==
    IF depth >= MaxNest
    THEN [ Quiet EXCEPT !.exc = "RecursionError", !.emits = 1 ]
    ELSE
      LET subject == EmitSubject(m, record)
          text == EmitText(m, h, record, ctx)
          r == send(m, hs, ctx, EmitArgs(h, subject, text), answer, depth + 1)
      IN  EmitOutcome([ posts |-> r.posts, logged |-> r.logged,
                        exc |-> r.exc, err |-> r.err,
                        sends |-> r.sends, emits |-> r.emits + 1 ])


-----------------------------------------------------------------------------
(* Inputs *)

HtmlDocs == { <<"<p>", "Hello ", "<b>", "world", "</b>", "</p>">> }

\* The keyword arguments of a call of send by the application: to and
\* subject always, from_ (possibly None), text and html each or not.
SendArgs ==
    UNION { { [ n \in K |->
                  CASE n = "from_" -> f
                    [] n = "to" -> <<"you@example.org">>
                    [] n = "subject" -> <<"Hi">>
                    [] n = "text" -> <<"plain">>
                    [] n = "html" -> h ] :
              f \in {None, <<"me@example.org">>}, h \in HtmlDocs } :
            K \in { {"to", "subject"} \cup X :
                        X \in SUBSET {"from_", "text", "html"} } }

\* What the server answers to a POST.
Answers ==
    { [ status_code |-> 200, text |-> <<"Queued. Thank you.">> ],
      [ status_code |-> 201, text |-> <<"Created">> ],
      [ status_code |-> 401, text |-> <<"Unauthorized">> ] }

\* The records the application logs: with and without exception info, at
\* every level, on two lines (one line for those with exception info).
ExcludedRecords ==
    { [ levelno |-> l, pathname |-> <<"app.py">>, lineno |-> 42,
        module |-> <<"app">>, funcName |-> <<"view">>, asctime |-> <<"T0">>,
        msg |-> <<"boom">>, exc_info |-> << <<"bad value">> >> ] :
      l \in LogLevels }

LogRecords ==
    { [ levelno |-> l, pathname |-> <<"app.py">>, lineno |-> n,
        module |-> <<"app">>, funcName |-> <<"view">>, asctime |-> <<"T0">>,
        msg |-> <<"boom">>, exc_info |-> e ] :
      l \in LogLevels,
      n \in {7, 42},
      e \in { <<>>, << <<"bad value">> >> } } \ ExcludedRecords

\* A request with no headers, no session entries and no form entries.
PlainContext ==
    [ method |-> <<"GET">>, url |-> <<"http://localhost/">>,
      headers |-> EmptyDict, session |-> EmptyDict, form |-> EmptyDict ]

\* The request contexts records are logged in.
RequestContexts ==
    { PlainContext,
      [ method |-> <<"POST">>, url |-> <<"http://localhost/login">>,
        headers |-> [ n \in {"Host", "Accept"} |->
                        IF n = "Host" THEN <<"localhost">> ELSE <<"*/*">> ],
        session |-> [ n \in {"user"} |-> <<"42">> ],
        form |-> [ n \in {"name"} |-> <<"bob">> ] ] }

-----------------------------------------------------------------------------
(* The state machine                                                       *)
(*                                                                         *)
(* An application is built once: Mailgun() and then init_app(app), or      *)
(* Mailgun(app), which is the same.  It sends mail and logs only after     *)
(* init_app has returned; one whose init_app raised does not start.  A     *)
(* logging call runs to its end before the next call begins (the handler   *)
(* runs synchronously in the thread that logs).                            *)

NoResult == Quiet @@ [ built |-> EmptyDict ]

Observed(op, args, answer, event, res) ==
    [ op |-> op, args |-> args, answer |-> answer, event |-> event,
      res |-> res ]

Init ==
    /\ pc = "new"
    /\ \E d \in BOOLEAN, K \in Configs :
          app = [ debug |-> d,
                  config |-> [k \in K |-> ConfigValue(k)],
                  extensions |-> {},
                  handlers |-> <<>> ]
    /\ mg = MailgunNew
    /\ evt = <<>>
    /\ rendered = <<>>
    /\ last = Observed("none", <<>>, <<>>, <<>>, NoResult)

\* mailgun.init_app(app), once per application
InitApp ==
    /\ pc = "new"
    /\ LET r == InitAppResult(app, mg)
       IN  /\ app' = r.app
           /\ mg' = r.mg
           /\ pc' = IF r.exc = "none" THEN "Idle" ELSE "failed"
           /\ last' = Observed("init_app", <<>>, <<>>, <<>>,
                               [ NoResult EXCEPT !.exc = r.exc ])
    /\ UNCHANGED <<evt, rendered>>

\* The application calls mailgun.send(**args).
Send ==
    /\ pc = "Idle"
    /\ \E args \in SendArgs, answer \in Answers :
          last' = Observed("send", <<args>>, <<answer>>, <<>>,
                           send(mg, app.handlers, PlainContext, args,
                                answer, 0))
    /\ UNCHANGED <<pc, app, mg, evt, rendered>>

\* The application logs a record no handler of this module takes.
LogIgnored ==
    /\ pc = "Idle"
    /\ \E record \in LogRecords, ctx \in RequestContexts :
          /\ \A i \in 1..Len(app.handlers) :
                ~HandlerAccepts(app.handlers[i], record)
          /\ last' = Observed("log", <<>>, <<>>,
                              <<[ record |-> record, ctx |-> ctx ]>>, NoResult)
    /\ UNCHANGED <<pc, app, mg, evt, rendered>>

\* The application logs a record the handler takes: emit begins.
LogAccepted ==
    /\ pc = "Idle"
    /\ \E record \in LogRecords, ctx \in RequestContexts :
          /\ \E i \in 1..Len(app.handlers) :
                HandlerAccepts(app.handlers[i], record)
          /\ evt' = <<[ record |-> record, ctx |-> ctx,
                        h |-> CHOOSE i \in 1..Len(app.handlers) :
                                HandlerAccepts(app.handlers[i], record) ]>>
    /\ pc' = "Rendering"
    /\ rendered' = <<>>
    /\ last' = Observed("none", <<>>, <<>>, <<>>, NoResult)
    /\ UNCHANGED <<app, mg>>

\* emit computes the subject and the text, lines 215-232.
Render ==
    /\ pc = "Rendering"
    /\ LET e == evt[1]
           h == app.handlers[e.h]
       IN  rendered' = <<[ subject |-> EmitSubject(mg, e.record),
                           text |-> EmitText(mg, h, e.record, e.ctx) ]>>
    /\ pc' = "Dispatching"
    /\ UNCHANGED <<app, mg, evt, last>>

\* emit calls send, lines 234-238, and the logging call ends as it ends.
Dispatch ==
    /\ pc = "Dispatching"
    /\ \E answer \in Answers :
          LET e == evt[1]
              h == app.handlers[e.h]
              args == EmitArgs(h, rendered[1].subject, rendered[1].text)
              r == send(mg, app.handlers, e.ctx, args, answer, 1)
          IN  last' = Observed("log", <<args>>, <<answer>>,
                               <<[ record |-> e.record, ctx |-> e.ctx ]>>,
                               EmitOutcome(r))
    /\ pc' = "Idle"
    /\ evt' = <<>>
    /\ rendered' = <<>>
    /\ UNCHANGED <<app, mg>>

Next ==
    \/ InitApp
    \/ Send
    \/ LogIgnored
    \/ LogAccepted
    \/ Render
    \/ Dispatch

Spec == Init /\ [][Next]_vars


-----------------------------------------------------------------------------
(* Properties *)

\* A call of send has ended: the application's own, or the one emit made.
SendCalled == pc = "Idle" /\ last.args # <<>>

InDebugMode == Has(mg, "debug") /\ mg["debug"]

InLiveMode == Has(mg, "debug") /\ ~mg["debug"]

\* The handler init_app registers when a recipient is configured.
HandlerConfigured == Has(app.config, "MAILGUN_LOGGING_RECIPIENT")

\* C1: in debug mode every call of send makes no POST and returns normally.
C1_DebugSendReturns ==
    (SendCalled /\ InDebugMode) =>
        /\ last.res.posts = <<>>
        /\ last.res.exc = "none"

\* C2: in live mode every call of send makes exactly one POST; it returns
\* normally on status 200 and otherwise raises APIError carrying the method
\* and URL of that POST and the status code and body of its response.
C2_LiveSendOnePost ==
    (SendCalled /\ InLiveMode) =>
        LET r == last.res
            a == last.answer[1]
        IN  /\ Len(r.posts) = 1
            /\ a.status_code = 200 => (r.exc = "none" /\ r.err = <<>>)
            /\ a.status_code # 200 =>
                  /\ r.exc = "APIError"
                  /\ Len(r.err) = 1
                  /\ r.err[1].method = r.posts[1].method
                  /\ r.err[1].url = r.posts[1].url
                  /\ r.err[1].status_code = a.status_code
                  /\ r.err[1].text = a.text

C2_Witness ==
    /\ SendCalled /\ InLiveMode
    /\ last.op = "send"
    /\ last.answer[1].status_code = 401
    /\ last.res.exc = "APIError"
    /\ last.res.err[1].text = <<"Unauthorized">>

\* C3: a call of send with neither text nor html fails with InvalidRequest,
\* and no message handed to the transport lacks both text and html.  Stated
\* of the live path, the one that has a transport to hand the message to.
C3_BodyRequired ==
    (SendCalled /\ InLiveMode) =>
        /\ (~Has(last.args[1], "text") /\ ~Has(last.args[1], "html"))
              => last.res.exc = "InvalidRequest"
        /\ \A i \in 1..Len(last.res.posts) :
              \/ Has(last.res.posts[i].data, "text")
              \/ Has(last.res.posts[i].data, "html")

\* C4: the built message always has a from field: the caller's from_ when
\* it is given and not None, otherwise "no-reply@" + the configured domain;
\* from_ itself is never a field of the message.
C4_SenderFallback ==
    SendCalled =>
        LET a == last.args[1]
            b == last.res.built
            expected == IF Has(a, "from_") /\ a["from_"] # None
                        THEN a["from_"]
                        ELSE <<"no-reply@">> \o app.config["MAILGUN_DOMAIN"]
        IN  /\ Has(b, "from") /\ ~Has(b, "from_")
            /\ b["from"] = expected
            /\ \A i \in 1..Len(last.res.posts) :
                  /\ ~Has(last.res.posts[i].data, "from_")
                  /\ last.res.posts[i].data["from"] = expected

C4_Witness ==
    /\ SendCalled /\ InLiveMode
    /\ Has(last.args[1], "from_") /\ last.args[1]["from_"] = None
    /\ Len(last.res.posts) = 1
    /\ last.res.posts[1].data["from"] = <<"no-reply@", "mg.example.org">>

\* C5: with html set and text unset the text of the built message is the
\* html2text conversion of html and html is passed unchanged; a text the
\* caller sets is passed unchanged.
C5_TextFallback ==
    SendCalled =>
        LET a == last.args[1]
            b == last.res.built
        IN  /\ (Has(a, "html") /\ ~Has(a, "text")) =>
                  /\ b["text"] = html2text(a["html"])
                  /\ b["html"] = a["html"]
            /\ Has(a, "text") => b["text"] = a["text"]
            /\ Has(a, "html") => b["html"] = a["html"]

C5_Witness ==
    /\ SendCalled /\ InLiveMode
    /\ Has(last.args[1], "html") /\ ~Has(last.args[1], "text")
    /\ Len(last.res.posts) = 1
    /\ last.res.posts[1].data["text"] =
          <<"", "Hello ", "**", "world", "**", "", "\n\n">>
    /\ last.res.posts[1].data["text"] # last.args[1]["html"]

\* C6: init_app on a debug-mode application configured with neither
\* MAILGUN_DOMAIN nor MAILGUN_KEY completes and leaves a usable object.
C6_DebugInitWithoutCredentials ==
    ( /\ last.op = "init_app"
      /\ app.debug
      /\ ~Has(app.config, "MAILGUN_DOMAIN")
      /\ ~Has(app.config, "MAILGUN_KEY") ) =>
        /\ last.res.exc = "none"
        /\ pc = "Idle"


\* The call of send that emit made for a record has ended.
EmitDone == SendCalled /\ last.op = "log"

\* C7: the subject emit passes to send is the exception-subject template
\* filled with the exception's string form when the record carries exception
\* info, otherwise the no-exception-subject template filled with the
\* record's severity name, path and line number; from_ is the configured
\* sender and to the configured recipient.
C7_EmitSubject ==
    EmitDone =>
        LET record == last.event[1].record
            a == last.args[1]
            withexc == GetOr(app.config,
                             "MAILGUN_ERROR_SUBJECT_WITHEXCINFO_TEMPLATE",
                             <<Lit("ERROR: "), Ph("exc_info")>>)
            withoutexc == GetOr(app.config,
                                "MAILGUN_ERROR_SUBJECT_WITHOUTEXCINFO_TEMPLATE",
                                <<Ph("levelname"), Lit(": "), Ph("pathname"),
                                  Lit(":"), Ph("lineno")>>)
        IN  /\ a["from_"] = GetOr(app.config, "MAILGUN_LOGGING_SENDER", None)
            /\ a["to"] = app.config["MAILGUN_LOGGING_RECIPIENT"]
            /\ record.exc_info # <<>> =>
                  a["subject"] =
                      Format(withexc,
                             [n \in {"exc_info"} |-> record.exc_info[1]])
            /\ record.exc_info = <<>> =>
                  a["subject"] =
                      Format(withoutexc,
                             [n \in {"levelname", "pathname", "lineno"} |->
                                CASE n = "levelname" ->
                                        <<levelname(record.levelno)>>
                                  [] n = "pathname" -> record.pathname
                                  [] n = "lineno" ->
                                        <<IntStr(record.lineno)>>])
            /\ ( /\ record.exc_info # <<>>
                 /\ ~Has(app.config,
                         "MAILGUN_ERROR_SUBJECT_WITHEXCINFO_TEMPLATE") )
                  => a["subject"] = <<"ERROR: ", "bad value">>
            /\ ( /\ record.exc_info = <<>>
                 /\ record.levelno = 50 /\ record.lineno = 42
                 /\ ~Has(app.config,
                         "MAILGUN_ERROR_SUBJECT_WITHOUTEXCINFO_TEMPLATE") )
                  => a["subject"] = <<"CRITICAL", ": ", "app.py", ":", "42">>

C7_Witness ==
    /\ EmitDone
    /\ last.event[1].record.exc_info # <<>>
    /\ last.args[1]["subject"] = <<"ERROR: ", "bad value">>
    /\ last.args[1]["from_"] = <<"app@example.org">>
    /\ last.args[1]["to"] = <<"ops@example.org">>

\* C8, the state part: once a logging call has ended, send was called
\* exactly once if the handler is registered and the record is at ERROR or
\* above, and not at all otherwise.
C8_OneSendPerError ==
    (pc = "Idle" /\ last.op = "log") =>
        Len(last.res.sends) =
            IF HandlerConfigured /\ last.event[1].record.levelno >= 40
            THEN 1 ELSE 0

\* C8, the step part: the phases follow Idle -> Rendering -> Dispatching ->
\* Idle, Rendering begins only for a record at ERROR or above, and no step
\* after init_app changes the handler (sender, recipient, messages).
C8_Step ==
    /\ pc = "Idle" => pc' \in {"Idle", "Rendering"}
    /\ pc = "Rendering" => pc' = "Dispatching"
    /\ pc = "Dispatching" => pc' = "Idle"
    /\ pc' = "Rendering" => (pc = "Idle" /\ evt'[1].record.levelno >= 40)
    /\ pc # "new" => app'.handlers = app.handlers
    /\ \A i \in 1..Len(app'.handlers) : app'.handlers[i].messages = <<>>

\* C8: every event at ERROR or above causes exactly one call of send, every
\* event below ERROR causes none, each event passes through Idle ->
\* Rendering -> Dispatching -> Idle, and the handler keeps no state between
\* events.
C8_BridgeStateless == [] C8_OneSendPerError /\ [][C8_Step]_vars

C8_Witness ==
    /\ pc = "Idle" /\ last.op = "log"
    /\ last.event[1].record.levelno = 40
    /\ Len(last.res.sends) = 1
    /\ Len(app.handlers) = 1
    /\ app.handlers[1].messages = <<>>

\* C9: when the send emit makes fails with APIError, emit raises that error
\* to the logging call, and the event has caused one POST and one call of
\* send, no more.
C9_EmitPropagates ==
    (EmitDone /\ InLiveMode /\ last.answer[1].status_code # 200) =>
        /\ last.res.exc = "APIError"
        /\ Len(last.res.err) = 1
        /\ last.res.err[1].status_code = last.answer[1].status_code
        /\ Len(last.res.posts) = 1
        /\ Len(last.res.sends) = 1

C9_Witness ==
    /\ EmitDone /\ InLiveMode
    /\ last.answer[1].status_code = 401
    /\ last.res.exc = "APIError"
    /\ Len(last.res.posts) = 1

\* C10: the records send writes to the application logger are at DEBUG in
\* debug mode and at INFO after a live success, below the level of every
\* registered handler; a send that raises writes none; so no emit runs
\* inside a send, and an event causes at most as many calls of send as
\* there are handlers.
C10_NoReentry ==
    (pc = "Idle" /\ last.op \in {"send", "log"}) =>
        LET r == last.res
        IN  /\ \A i \in 1..Len(r.logged) :
                  /\ r.logged[i].levelno = (IF InDebugMode THEN 10 ELSE 20)
                  /\ r.logged[i].levelno < 40
                  /\ \A j \in 1..Len(app.handlers) :
                        r.logged[i].levelno < app.handlers[j].level
            /\ r.exc # "none" => r.logged = <<>>
            /\ r.emits = 0
            /\ last.op = "log" => Len(r.sends) <= Len(app.handlers)
            /\ last.op = "send" => Len(r.sends) = 1

C10_Witness ==
    /\ EmitDone /\ InLiveMode
    /\ last.res.exc = "none"
    /\ Len(last.res.logged) = 1
    /\ last.res.logged[1].levelno = 20
    /\ last.res.emits = 0
    /\ Len(last.res.sends) = 1

=============================================================================
